---- MODULE Spec2Model ----
(***************************************************************************)
(* BIP32 private-key derivation of tiny-hderive (src/src/bip32.rs):        *)
(* Protected, ExtendedPrivKey::derive / child / secret and from_str.       *)
(*                                                                         *)
(* The widths are scaled: a byte holds a value in 0 .. ByteBase-1 and a    *)
(* scalar or chain code is KeyLen bytes (32 in the source), so that the    *)
(* scalar field is small enough to be explored exhaustively.  The curve    *)
(* order is the largest prime below ByteBase^KeyLen, as secp256k1's order  *)
(* is a prime just below 2^256.  HMAC-SHA512 and the curve's point         *)
(* encoding are external primitives; they are replaced by deterministic    *)
(* stand-ins of the same shape (see HmacSha512 and to_encoded_point).      *)
(***************************************************************************)
EXTENDS Integers, Sequences, FiniteSets, TLC

\* ------------------------------------------------------------------ bounds
ByteBase == 4
KeyLen == 2
MaxSeedLen == 2
MaxPath == 2

\* --------------------------------------------------------------- bytes
Byte == 0 .. (ByteBase - 1)

RECURSIVE Pow(_, _)
Pow(b, e) == IF e = 0 THEN 1 ELSE b * Pow(b, e - 1)

\* Big-endian value of a byte string.
RECURSIVE BytesToInt(_)
BytesToInt(bs) ==
    IF bs = <<>> THEN 0
    ELSE BytesToInt(SubSeq(bs, 1, Len(bs) - 1)) * ByteBase + bs[Len(bs)]

\* Big-endian encoding of v in exactly len bytes.
IntToBytes(v, len) ==
    [i \in 1 .. len |-> (v \div Pow(ByteBase, len - i)) % ByteBase]

Zeroes == [i \in 1 .. KeyLen |-> 0]

\* All byte strings of length at most n.
RECURSIVE BytesUpTo(_)
BytesUpTo(n) ==
    IF n = 0 THEN {<<>>}
    ELSE LET shorter == BytesUpTo(n - 1)
         IN  shorter \cup {Append(s, b) : s \in {t \in shorter : Len(t) = n - 1}, b \in Byte}

\* --------------------------------------------------------------- results
NoKey == [secret_key |-> 0, chain_code |-> <<>>]
Ok(k) == [ok |-> TRUE, err |-> "", key |-> k]
Err(e) == [ok |-> FALSE, err |-> e, key |-> NoKey]
NoResult == [ok |-> FALSE, err |-> "none", key |-> NoKey]

\* --------------------------------------------------------------- curve
ScalarSpace == Pow(ByteBase, KeyLen)

IsPrime(p) == p > 1 /\ \A d \in 2 .. (p - 1) : p % d # 0

\* The order n of the group: the largest prime below the scalar space.
CurveOrder ==
    CHOOSE p \in 2 .. (ScalarSpace - 1) :
        IsPrime(p) /\ \A q \in (p + 1) .. (ScalarSpace - 1) : ~IsPrime(q)

\* SecretKey::from_bytes: the bytes must be a scalar's length and encode a
\* non-zero value below the order.
from_bytes(bytes) ==
    LET v == BytesToInt(bytes)
    IN  IF Len(bytes) = KeyLen /\ v # 0 /\ v < CurveOrder
        THEN [ok |-> TRUE, val |-> v]
        ELSE [ok |-> FALSE, val |-> 0]

\* SecretKey::to_bytes: the canonical big-endian encoding.
to_bytes(scalar) == IntToBytes(scalar, KeyLen)

\* Scalar + Scalar: addition modulo the order.
ScalarAdd(a, b) == (a + b) % CurveOrder

\* public_key().to_encoded_point(true): a tag byte for the parity of y, then x.
\* A scalar and its negation share x and differ in the tag.
to_encoded_point(scalar) ==
    LET neg == CurveOrder - scalar
        low == IF scalar <= neg THEN scalar ELSE neg
    IN  <<IF scalar <= neg THEN 2 ELSE 3>> \o IntToBytes((low * 3) % CurveOrder, KeyLen)

\* ---------------------------------------------------------------- hmac
HmacSpace == Pow(ByteBase, 2 * KeyLen)

RECURSIVE Absorb(_, _)
Absorb(h, bs) ==
    IF bs = <<>> THEN h
    ELSE Absorb((h * 7 + Head(bs) + 3) % HmacSpace, Tail(bs))

\* Hmac::<Sha512>::new_varkey(key), update(msg), finalize().into_bytes():
\* 2 * KeyLen bytes that depend on the key and on the message.
HmacSha512(key, msg) ==
    IntToBytes(Absorb((Absorb(5, key) * 11 + 1) % HmacSpace, msg), 2 * KeyLen)

\* ------------------------------------------------------------ Protected
\* The value of a Protected whose construction panicked (no buffer is built).
Panicked == <<-1>>

\* impl From<Data> for Protected: copy_from_slice into a zeroed buffer of the
\* scalar's length; a source of another length panics.
Protected_from(data) ==
    IF Len(data) = KeyLen THEN [i \in 1 .. KeyLen |-> data[i]] ELSE Panicked

\* impl Deref for Protected: the bytes, read-only.
deref(protected) == protected

\* A Drop that gives the buffer back as it is.
drop_keeps(protected) == protected

\* impl Drop for Protected: every byte is overwritten with zero; the value is
\* the content of the buffer when its memory is given back.
drop(protected) == [i \in DOMAIN protected |-> 0]

\* ---------------------------------------------------------- ChildNumber
\* (crate::bip44, described by the specification's data model: an unsigned
\* index of IndexLen bytes whose high bit marks hardened derivation)
IndexLen == 4
IndexSpace == Pow(ByteBase, IndexLen)
HARDENED_BIT == IndexSpace \div 2

is_normal(child) == child < HARDENED_BIT

ChildNumber_to_bytes(child) == IntToBytes(child, IndexLen)

\* A derivation path as written: components, each a number optionally marked
\* hardened.  IntoDerivationPath::into gives the ChildNumbers in order, or
\* fails when a component's number does not fit below the hardened bit.
RECURSIVE into(_)
into(path) ==
    IF path = <<>> THEN [ok |-> TRUE, err |-> "", val |-> <<>>]
    ELSE LET c == Head(path)
             more == into(Tail(path))
         IN  IF c.num >= HARDENED_BIT \/ ~more.ok
             THEN [ok |-> FALSE, err |-> "InvalidDerivationPath", val |-> <<>>]
             ELSE [ok |-> TRUE, err |-> "",
                   val |-> <<c.num + (IF c.hard THEN HARDENED_BIT ELSE 0)>> \o more.val]

\* -------------------------------------------------------- ExtendedPrivKey
\* result.split_at(32)
split_at(result) ==
    [left |-> SubSeq(result, 1, KeyLen), right |-> SubSeq(result, KeyLen + 1, Len(result))]

\* b"Bitcoin seed", each character reduced to a byte of the model.
BitcoinSeed ==
    [i \in 1 .. 12 |-> <<66, 105, 116, 99, 111, 105, 110, 32, 115, 101, 101, 100>>[i] % ByteBase]

\* derive, up to the construction of the master key: the key, or the error of
\* the scalar check (which comes before the chain code is wrapped).
master(seed) ==
    LET halves == split_at(HmacSha512(BitcoinSeed, seed))
        secret_key == from_bytes(halves.left)
    IN  IF ~secret_key.ok THEN Err("Secp256k1")
        ELSE Ok([secret_key |-> secret_key.val, chain_code |-> Protected_from(halves.right)])

\* ExtendedPrivKey::secret
secret(self) == to_bytes(self.secret_key)

\* A child that feeds the public point for every index.
child_message_public(self, child) ==
    to_encoded_point(self.secret_key) \o ChildNumber_to_bytes(child)

\* child: what is fed to the HMAC after keying it with the chain code.
child_message(self, child) ==
    (IF is_normal(child)
     THEN to_encoded_point(self.secret_key)
     ELSE <<0>> \o to_bytes(self.secret_key))
    \o ChildNumber_to_bytes(child)

\* A child that takes the left half as the scalar, without the parent's.
child_sum_forgot(left, self) == to_bytes(left)

\* child: the candidate bytes of the child's scalar, from the parsed left
\* half and the parent's scalar.
child_sum(left, self) == to_bytes(ScalarAdd(left, self.secret_key))

\* A child that builds the key from the sum without checking it.
child_out_unchecked(left, secret_key, right) ==
    IF ~left.ok THEN Err("Secp256k1")
    ELSE Ok([secret_key |-> secret_key.val, chain_code |-> Protected_from(right)])

\* child: the two scalar checks and the returned value.  left is the parsed
\* left half, secret_key the parsed sum, right the right half.
child_out(left, secret_key, right) ==
    IF ~left.ok THEN Err("Secp256k1")
    ELSE IF ~secret_key.ok THEN Err("Secp256k1")
    ELSE Ok([secret_key |-> secret_key.val, chain_code |-> Protected_from(right)])

\* child, with what it did on the way: the HMAC's key and message, its
\* output, whether the addition was reached, the parent as the call leaves
\* it (child borrows it immutably), and the returned value.  new_varkey
\* accepts a key of any length, so its InvalidChildNumber error cannot arise.
child_run(self, child) ==
    LET hmac_key == deref(self.chain_code)
        msg == child_message(self, child)
        result == HmacSha512(hmac_key, msg)
        halves == split_at(result)
        left == from_bytes(halves.left)
        secret_key == from_bytes(child_sum(left.val, self))
    IN  [hmac_key |-> hmac_key, msg |-> msg, result |-> result,
         added |-> left.ok, self |-> self,
         out |-> child_out(left, secret_key, halves.right)]

\* ExtendedPrivKey::child
child(self, index) == child_run(self, index).out

\* A loop that visits the ChildNumbers from the last to the first.
loop_turn_reversed(sk, iter) ==
    IF iter = <<>>
    THEN [done |-> TRUE, ret |-> Ok(sk), sk |-> NoKey, iter |-> iter,
          freed |-> <<>>, called |-> <<>>, made |-> 0]
    ELSE LET last == iter[Len(iter)]
             r == child(sk, last)
         IN  IF r.ok
             THEN [done |-> FALSE, ret |-> NoResult, sk |-> r.key,
                   iter |-> SubSeq(iter, 1, Len(iter) - 1),
                   freed |-> <<drop(sk.chain_code)>>, called |-> <<last>>, made |-> 1]
             ELSE [done |-> TRUE, ret |-> r, sk |-> NoKey,
                   iter |-> SubSeq(iter, 1, Len(iter) - 1),
                   freed |-> <<drop(sk.chain_code)>>, called |-> <<last>>, made |-> 0]

\* A loop that keeps the key it has when a child step fails, and goes on.
loop_turn_continue(sk, iter) ==
    IF iter = <<>>
    THEN [done |-> TRUE, ret |-> Ok(sk), sk |-> NoKey, iter |-> iter,
          freed |-> <<>>, called |-> <<>>, made |-> 0]
    ELSE LET r == child(sk, Head(iter))
         IN  IF r.ok
             THEN [done |-> FALSE, ret |-> NoResult, sk |-> r.key, iter |-> Tail(iter),
                   freed |-> <<drop(sk.chain_code)>>, called |-> <<Head(iter)>>, made |-> 1]
             ELSE [done |-> FALSE, ret |-> NoResult, sk |-> sk, iter |-> Tail(iter),
                   freed |-> <<>>, called |-> <<Head(iter)>>, made |-> 0]

\* derive's loop, one turn: `sk = sk.child(*child)?` for the next ChildNumber,
\* or `Ok(sk)` when none is left.  freed: the Protected buffers dropped by the
\* turn (the replaced key's, or the local's on an early return), as they are
\* when given back; called: the ChildNumber handed to child, if any.
loop_turn(sk, iter) ==
    IF iter = <<>>
    THEN [done |-> TRUE, ret |-> Ok(sk), sk |-> NoKey, iter |-> iter,
          freed |-> <<>>, called |-> <<>>, made |-> 0]
    ELSE LET r == child(sk, Head(iter))
         IN  IF r.ok
             THEN [done |-> FALSE, ret |-> NoResult, sk |-> r.key, iter |-> Tail(iter),
                   freed |-> <<drop(sk.chain_code)>>, called |-> <<Head(iter)>>, made |-> 1]
             ELSE [done |-> TRUE, ret |-> r, sk |-> NoKey, iter |-> Tail(iter),
                   freed |-> <<drop(sk.chain_code)>>, called |-> <<Head(iter)>>, made |-> 0]

\* ---------------------------------------------------------------- from_str
\* The layout of a decoded extended private key: a header, the chain code,
\* one byte, the scalar, the checksum (13, 45, 46, 78 and 82 in the source,
\* where a chain code and a scalar are 32 bytes).
XPRV_HEADER == 13
XPRV_PAD == 1
XPRV_CHECKSUM == 4
CC_START == XPRV_HEADER
CC_END == CC_START + KeyLen
SK_START == CC_END + XPRV_PAD
SK_END == SK_START + KeyLen
XPRV_LEN == SK_END + XPRV_CHECKSUM

\* A range taken one byte early.
slice_shifted(data, a, b) == SubSeq(data, a, b - 1)

\* data[a..b]
slice(data, a, b) == SubSeq(data, a + 1, b)

\* A length check that lets a longer decoding through.
wrong_length_short(data) == Len(data) < XPRV_LEN

\* data.len() != 82
wrong_length(data) == Len(data) # XPRV_LEN

\* xprv.from_base58(): the text either is Base58 and decodes to bytes, or is
\* not (the decoder is an external primitive; a text is given by what it
\* decodes to).
from_base58(xprv) ==
    IF xprv.base58 THEN [ok |-> TRUE, data |-> xprv.bytes] ELSE [ok |-> FALSE, data |-> <<>>]

\* from_str, with the Protected buffers it drops on the way (the chain code
\* is wrapped before the scalar is checked).
from_str_run(xprv) ==
    LET decoded == from_base58(xprv)
        data == decoded.data
    IN  IF ~decoded.ok THEN [out |-> Err("InvalidExtendedPrivKey"), freed |-> <<>>, made |-> 0]
        ELSE IF wrong_length(data)
        THEN [out |-> Err("InvalidExtendedPrivKey"), freed |-> <<>>, made |-> 0]
        ELSE LET chain_code == Protected_from(slice(data, CC_START, CC_END))
                 secret_key == from_bytes(slice(data, SK_START, SK_END))
             IN  IF ~secret_key.ok
                 THEN [out |-> Err("Secp256k1"), freed |-> <<drop(chain_code)>>, made |-> 1]
                 ELSE [out |-> Ok([secret_key |-> secret_key.val, chain_code |-> chain_code]),
                       freed |-> <<>>, made |-> 1]

from_str(xprv) == from_str_run(xprv).out

\* ------------------------------------------------------------------ inputs
Seeds == BytesUpTo(MaxSeedLen)

\* The components a path is written with; the last one is out of range.
Components ==
    {[num |-> n, hard |-> h] : n \in {0, 1}, h \in BOOLEAN}
        \cup {[num |-> HARDENED_BIT, hard |-> FALSE]}

RECURSIVE PathsUpTo(_)
PathsUpTo(n) ==
    IF n = 0 THEN {<<>>}
    ELSE LET shorter == PathsUpTo(n - 1)
         IN  shorter \cup {Append(q, c) : q \in {t \in shorter : Len(t) = n - 1}, c \in Components}

Paths == PathsUpTo(MaxPath)

ChildNumbers == {0, 1, HARDENED_BIT, HARDENED_BIT + 1}

\* The same index with the hardened bit flipped.
Flipped(c) == (c + HARDENED_BIT) % IndexSpace

KeyBytes == {IntToBytes(v, KeyLen) : v \in 0 .. (ScalarSpace - 1)}

ChainCodes == {[i \in 1 .. KeyLen |-> b] : b \in Byte} \cup {[i \in 1 .. KeyLen |-> i % ByteBase]}

Fill(n, b) == [i \in 1 .. n |-> b]

Blob(cc, skb, f) ==
    Fill(XPRV_HEADER, f) \o cc \o Fill(XPRV_PAD, f) \o skb \o Fill(XPRV_CHECKSUM, f)

Blobs == {Blob(cc, skb, f) : cc \in ChainCodes, skb \in KeyBytes, f \in {0, ByteBase - 1}}

\* Decoded lengths other than a whole extended key's.
Misfits ==
    LET b == Blob(Fill(KeyLen, 1), Fill(KeyLen, 1), 0)
    IN  {<<>>, SubSeq(b, 1, XPRV_LEN - 1), b \o <<1>>, b \o b, SubSeq(b, 1, KeyLen)}

XprvInputs ==
    {[base58 |-> TRUE, bytes |-> b] : b \in Blobs \cup Misfits}
        \cup {[base58 |-> FALSE, bytes |-> b] : b \in {<<>>, Blob(Fill(KeyLen, 1), Fill(KeyLen, 1), 0)}}

\* The bytes with every byte outside the chain-code and scalar fields changed.
Refilled(bytes) ==
    [i \in DOMAIN bytes |->
        IF i - 1 \in (CC_START .. (CC_END - 1)) \cup (SK_START .. (SK_END - 1))
        THEN bytes[i] ELSE (bytes[i] + 1) % ByteBase]

NoText == [base58 |-> FALSE, bytes |-> <<-1>>]

\* ------------------------------------------------------------------- state
VARIABLES
    pc,         \* where derive is: "idle", "master", "path", "loop", "return"
    phase,      \* what the caller is doing
    seed,       \* derive's argument
    path,       \* derive's argument
    sk,         \* derive's local
    iter,       \* the ChildNumbers derive's loop has still to visit
    ret,        \* derive's return value
    log,        \* the ChildNumbers derive has handed to child, and how each ended
    created,    \* Protected buffers built since derive was entered
    dropped,    \* Protected buffers given back since derive was entered
    reclaimed,  \* the contents Protected buffers had when they were given back
    fullPath,   \* the path of the caller's direct derivation
    direct,     \* the result of the direct derivation
    held,       \* the caller's key: a parent
    rest,       \* the ChildNumbers the caller has still to apply
    kids,       \* the children the caller derived from held, with each call's record
    xprv,       \* the text given to from_str
    xprv2,      \* a second text, one byte away from the first
    parsed2     \* from_str of the second text

vars == <<pc, phase, seed, path, sk, iter, ret, log, created, dropped, reclaimed,
          fullPath, direct, held, rest, kids, xprv, xprv2, parsed2>>

derive_vars == <<pc, seed, path, sk, iter, ret, log, created, dropped>>
parse_vars == <<xprv, xprv2, parsed2>>

Range(f) == {f[i] : i \in DOMAIN f}

Init ==
    /\ pc = "idle"
    /\ phase = "start"
    /\ seed = <<>>
    /\ path = <<>>
    /\ sk = NoKey
    /\ iter = <<>>
    /\ ret = NoResult
    /\ log = <<>>
    /\ created = 0
    /\ dropped = 0
    /\ reclaimed = {}
    /\ fullPath = <<>>
    /\ direct = NoResult
    /\ held = NoResult
    /\ rest = <<>>
    /\ kids = <<>>
    /\ xprv = NoText
    /\ xprv2 = NoText
    /\ parsed2 = NoResult

\* ------------------------------------------------------------------ derive
\* The caller derives a key directly: ExtendedPrivKey::derive(seed, path).
CallDerive ==
    /\ pc = "idle" /\ phase = "start"
    /\ \E s \in Seeds, p \in Paths :
        /\ seed' = s
        /\ path' = p
        /\ fullPath' = p
    /\ pc' = "master"
    /\ phase' = "direct"
    /\ UNCHANGED <<sk, iter, ret, log, created, dropped, reclaimed,
                   direct, held, rest, kids, xprv, xprv2, parsed2>>

\* derive: the HMAC of the seed, the scalar check, the master key.
DeriveMaster ==
    /\ pc = "master"
    /\ LET m == master(seed)
       IN  IF m.ok
           THEN /\ sk' = m.key
                /\ created' = created + 1
                /\ pc' = "path"
                /\ ret' = ret
           ELSE /\ ret' = m
                /\ pc' = "return"
                /\ UNCHANGED <<sk, created>>
    /\ UNCHANGED <<phase, seed, path, iter, log, dropped, reclaimed,
                   fullPath, direct, held, rest, kids, xprv, xprv2, parsed2>>

\* derive: `path.into()?`; on failure the master key goes out of scope.
DerivePath ==
    /\ pc = "path"
    /\ LET p == into(path)
       IN  IF p.ok
           THEN /\ iter' = p.val
                /\ pc' = "loop"
                /\ UNCHANGED <<sk, ret, dropped, reclaimed>>
           ELSE /\ ret' = Err(p.err)
                /\ sk' = NoKey
                /\ dropped' = dropped + 1
                /\ reclaimed' = reclaimed \cup {drop(sk.chain_code)}
                /\ pc' = "return"
                /\ iter' = iter
    /\ UNCHANGED <<phase, seed, path, log, created,
                   fullPath, direct, held, rest, kids, xprv, xprv2, parsed2>>

\* derive: one turn of the loop, or the final `Ok(sk)`.
DeriveLoop ==
    /\ pc = "loop"
    /\ LET t == loop_turn(sk, iter)
       IN  /\ sk' = t.sk
           /\ iter' = t.iter
           /\ ret' = t.ret
           /\ pc' = IF t.done THEN "return" ELSE "loop"
           /\ log' = log \o [i \in 1 .. Len(t.called) |->
                            [child |-> t.called[i], ok |-> child(sk, t.called[i]).ok]]
           /\ created' = created + t.made
           /\ dropped' = dropped + Len(t.freed)
           /\ reclaimed' = reclaimed \cup Range(t.freed)
    /\ UNCHANGED <<phase, seed, path, fullPath, direct, held, rest, kids, xprv, xprv2, parsed2>>

\* derive returns to the caller, which keeps the result.
DeriveReturn ==
    /\ pc = "return"
    /\ pc' = "idle"
    /\ IF phase = "direct"
       THEN /\ direct' = ret
            /\ phase' = IF into(fullPath).ok THEN "compare" ELSE "done"
            /\ held' = held
       ELSE /\ held' = ret
            /\ phase' = "fold"
            /\ direct' = direct
    /\ UNCHANGED <<seed, path, sk, iter, ret, log, created, dropped, reclaimed,
                   fullPath, rest, kids, xprv, xprv2, parsed2>>

\* The caller derives a prefix of the path (the empty one, or all but the last
\* component) and keeps the remaining ChildNumbers to apply with child.
CallPrefix ==
    /\ pc = "idle" /\ phase = "compare"
    /\ \E k \in {0, Len(fullPath) - 1} \cap (0 .. Len(fullPath)) :
        /\ path' = SubSeq(fullPath, 1, k)
        /\ rest' = into(SubSeq(fullPath, k + 1, Len(fullPath))).val
    /\ pc' = "master"
    /\ phase' = "prefix"
    /\ sk' = NoKey
    /\ iter' = <<>>
    /\ ret' = NoResult
    /\ log' = <<>>
    /\ created' = 0
    /\ dropped' = 0
    /\ UNCHANGED <<seed, reclaimed, fullPath, direct, held, kids, xprv, xprv2, parsed2>>

\* ------------------------------------------------------------------- child
\* A child that takes the parent by value: its chain code is wiped when the
\* call ends.
CallChildConsuming(c) ==
    LET run == child_run(held.key, c)
    IN  /\ kids' = Append(kids, [child |-> c, parent |-> held.key, run |-> run])
        /\ held' = [held EXCEPT !.key.chain_code = drop(@)]

\* The caller's held.child(c), recorded with the parent it was called on.
CallChild(c) ==
    LET run == child_run(held.key, c)
    IN  /\ kids' = Append(kids, [child |-> c, parent |-> held.key, run |-> run])
        /\ held' = [held EXCEPT !.key = run.self]

\* The caller applies the next ChildNumber of the path to the key it holds.
FoldChild ==
    /\ pc = "idle" /\ phase = "fold"
    /\ held.ok /\ rest # <<>> /\ kids = <<>>
    /\ CallChild(Head(rest))
    /\ UNCHANGED <<derive_vars, phase, reclaimed, fullPath, direct, rest, parse_vars>>

\* The caller replaces the key it holds by the child; the parent is dropped.
FoldAdvance ==
    /\ pc = "idle" /\ phase = "fold"
    /\ kids # <<>>
    /\ held' = kids[1].run.out
    /\ rest' = Tail(rest)
    /\ kids' = <<>>
    /\ reclaimed' = reclaimed \cup {drop(held.key.chain_code)}
    /\ UNCHANGED <<derive_vars, phase, fullPath, direct, parse_vars>>

FoldDone ==
    /\ pc = "idle" /\ phase = "fold"
    /\ kids = <<>>
    /\ rest = <<>> \/ ~held.ok
    /\ phase' = "done"
    /\ UNCHANGED <<derive_vars, reclaimed, fullPath, direct, held, rest, kids, parse_vars>>

\* ---------------------------------------------------------------- from_str
\* The caller parses a text: xprv.parse::<ExtendedPrivKey>().
Parse ==
    /\ pc = "idle" /\ phase = "start"
    /\ \E x \in XprvInputs :
        LET run == from_str_run(x)
        IN  /\ xprv' = x
            /\ held' = run.out
            /\ reclaimed' = reclaimed \cup Range(run.freed)
    /\ phase' = "parsed"
    /\ UNCHANGED <<derive_vars, fullPath, direct, rest, kids, xprv2, parsed2>>

\* The caller parses a second text that decodes to the first one's bytes with
\* one byte changed, or with every byte outside the two fields changed.
ParseTwin ==
    /\ pc = "idle" /\ phase = "parsed"
    /\ xprv.base58 /\ kids = <<>>
    /\ \E x \in {[xprv EXCEPT !.bytes[i] = (@ + 1) % ByteBase] : i \in DOMAIN xprv.bytes}
                 \cup {[xprv EXCEPT !.bytes = Refilled(@)]} :
        LET run == from_str_run(x)
        IN  /\ xprv2' = x
            /\ parsed2' = run.out
            /\ reclaimed' = reclaimed \cup Range(run.freed)
    /\ phase' = "twin"
    /\ UNCHANGED <<derive_vars, fullPath, direct, held, rest, kids, xprv>>

\* The caller derives siblings from the parsed key: a child, the child whose
\* index has the hardened bit flipped, and the first child again.
SiblingChild ==
    /\ pc = "idle" /\ phase = "parsed"
    /\ held.ok /\ Len(kids) < 3
    /\ \E c \in ChildNumbers :
        /\ Len(kids) = 1 => c = Flipped(kids[1].child)
        /\ Len(kids) = 2 => c = kids[1].child
        /\ CallChild(c)
    /\ UNCHANGED <<derive_vars, phase, reclaimed, fullPath, direct, rest, parse_vars>>

\* The caller is done with what it holds: every key is dropped.
Reset ==
    /\ pc = "idle"
    /\ phase \in {"done", "twin"} \/ (phase = "parsed" /\ (~held.ok \/ Len(kids) = 3))
    /\ reclaimed' = reclaimed \cup
         {drop(r.key.chain_code) :
            r \in {q \in {direct, held, parsed2} \cup {kids[i].run.out : i \in DOMAIN kids} : q.ok}}
    /\ phase' = "start"
    /\ seed' = <<>> /\ path' = <<>> /\ sk' = NoKey /\ iter' = <<>> /\ ret' = NoResult
    /\ log' = <<>> /\ created' = 0 /\ dropped' = 0
    /\ fullPath' = <<>> /\ direct' = NoResult /\ held' = NoResult /\ rest' = <<>>
    /\ kids' = <<>> /\ xprv' = NoText /\ xprv2' = NoText /\ parsed2' = NoResult
    /\ pc' = "idle"

Next ==
    \/ CallDerive \/ DeriveMaster \/ DerivePath \/ DeriveLoop \/ DeriveReturn
    \/ CallPrefix \/ FoldChild \/ FoldAdvance \/ FoldDone
    \/ Parse \/ ParseTwin \/ SiblingChild
    \/ Reset

Spec == Init /\ [][Next]_vars

\* ------------------------------------------------------------------ claims
ValidScalar(v) == v \in 1 .. (CurveOrder - 1)

Results == {ret, direct, held, parsed2} \cup {kids[i].run.out : i \in DOMAIN kids}

LeftOf(result) == BytesToInt(SubSeq(result, 1, KeyLen))
RightOf(result) == SubSeq(result, KeyLen + 1, 2 * KeyLen)

ChainCodeField(bytes) == SubSeq(bytes, CC_START + 1, CC_END)
ScalarField(bytes) == SubSeq(bytes, SK_START + 1, SK_END)

\* C1: when the direct derivation derive(seed, fullPath) succeeds, deriving a
\* prefix of the path (the empty one, or all but the last component) and
\* applying child for each remaining ChildNumber in order ends with the same
\* scalar and chain code.
C1_ChainEquivalence ==
    (phase = "done" /\ direct.ok) => held = direct

C1_Witness ==
    /\ phase = "done" /\ direct.ok /\ held = direct
    /\ Len(fullPath) = 2 /\ path = <<>>

\* C2: every key returned by derive, child or from_str has a scalar k with
\* 1 <= k < n, and a candidate that is not such a scalar (the left half of
\* the master HMAC, the left half of a child's HMAC, the child's sum when it
\* is zero modulo n, the scalar field of a decoded key) gives Secp256k1.
C2_ValidScalar ==
    /\ \A r \in Results : r.ok => ValidScalar(r.key.secret_key)
    /\ sk # NoKey => ValidScalar(sk.secret_key)
    /\ \A i \in DOMAIN kids :
         LET left == LeftOf(kids[i].run.result)
         IN  (~ValidScalar(left) \/ (left + kids[i].parent.secret_key) % CurveOrder = 0)
                 => kids[i].run.out = Err("Secp256k1")
    /\ (/\ phase \in {"parsed", "twin"}
        /\ xprv.base58 /\ Len(xprv.bytes) = XPRV_LEN
        /\ ~ValidScalar(BytesToInt(ScalarField(xprv.bytes))))
         => held = Err("Secp256k1")
    /\ (pc = "return" /\ ~ValidScalar(LeftOf(HmacSha512(BitcoinSeed, seed))))
         => ret = Err("Secp256k1")
    /\ (pc = "return" /\ log # <<>> /\ ~log[Len(log)].ok)
         => ret = Err("Secp256k1")

\* A child whose left half is a scalar and whose sum is zero modulo n.
C2_Witness ==
    \E i \in DOMAIN kids :
        LET left == LeftOf(kids[i].run.result)
        IN  /\ ValidScalar(left)
            /\ (left + kids[i].parent.secret_key) % CurveOrder = 0
            /\ kids[i].run.out = Err("Secp256k1")

\* C3: a Protected buffer is all zero when it is given back, and when derive
\* returns every buffer built during the call has been given back, except
\* the one inside a returned key.
C3_Zeroized ==
    /\ reclaimed \subseteq {Zeroes}
    /\ pc \in {"path", "loop"} => created - dropped = 1
    /\ pc = "return" =>
         /\ sk = NoKey
         /\ created - dropped = (IF ret.ok THEN 1 ELSE 0)

\* derive ends with the error of the second child step.
C3_Witness ==
    /\ pc = "return" /\ ~ret.ok
    /\ created = 2 /\ dropped = 2 /\ Len(log) = 2
    /\ reclaimed = {Zeroes}

\* C4: from_str gives InvalidExtendedPrivKey for a text that is not Base58 and
\* for a text whose decoding is not exactly a whole extended key long.
C4_InvalidLength ==
    /\ (phase \in {"parsed", "twin"} /\ (~xprv.base58 \/ Len(xprv.bytes) # XPRV_LEN))
         => held = Err("InvalidExtendedPrivKey")
    /\ (phase = "twin" /\ (~xprv2.base58 \/ Len(xprv2.bytes) # XPRV_LEN))
         => parsed2 = Err("InvalidExtendedPrivKey")

\* A decoding one byte too long.
C4_Witness ==
    /\ phase = "parsed" /\ xprv.base58
    /\ Len(xprv.bytes) = XPRV_LEN + 1
    /\ held = Err("InvalidExtendedPrivKey")

\* C5: child keys the HMAC with the parent's chain code and feeds it the
\* encoded public point and the index's big-endian bytes for a normal index,
\* a zero byte, the parent's scalar and the index's bytes for a hardened one;
\* the messages of an index and of the index with the hardened bit flipped
\* differ.
C5_HmacMessage ==
    /\ \A i \in DOMAIN kids :
         LET k == kids[i]
             m == k.run.msg
             data == SubSeq(m, 1, Len(m) - IndexLen)
             index == SubSeq(m, Len(m) - IndexLen + 1, Len(m))
         IN  /\ k.run.hmac_key = k.parent.chain_code
             /\ Len(m) = 1 + KeyLen + IndexLen
             /\ BytesToInt(index) = k.child
             /\ k.child < HARDENED_BIT => data = to_encoded_point(k.parent.secret_key)
             /\ k.child >= HARDENED_BIT =>
                  /\ data[1] = 0
                  /\ BytesToInt(Tail(data)) = k.parent.secret_key
    /\ \A i, j \in DOMAIN kids :
         (kids[i].parent = kids[j].parent /\ kids[j].child = Flipped(kids[i].child))
             => kids[i].run.msg # kids[j].run.msg

C5_Witness ==
    /\ Len(kids) >= 2
    /\ kids[1].child = 0 /\ kids[2].child = HARDENED_BIT
    /\ kids[1].parent = kids[2].parent
    /\ kids[1].run.msg # kids[2].run.msg

\* C7: the parent a child was derived from is the same after the call, and
\* after any later sibling's, as before it; deriving the first sibling again
\* gives the first result.
C7_ParentUnchanged ==
    /\ \A i \in DOMAIN kids : kids[i].parent = held.key
    /\ Len(kids) = 3 => kids[3].run.out = kids[1].run.out

\* Three calls on one parent, the first ending with an error and the second
\* with a key.
C7_Witness ==
    /\ Len(kids) = 3
    /\ ~kids[1].run.out.ok /\ kids[2].run.out.ok
    /\ held.key = kids[1].parent

\* C8: with I the HMAC's output, a child that is returned has the scalar
\* (I_L + parent scalar) mod n and the chain code I_R; it is returned exactly
\* when I_L is a scalar and the sum is not zero; when I_L is not a scalar the
\* result is Secp256k1 and the addition is not reached.
C8_ChildScalar ==
    \A i \in DOMAIN kids :
        LET k == kids[i]
            left == LeftOf(k.run.result)
            sum == (left + k.parent.secret_key) % CurveOrder
        IN  /\ k.run.result = HmacSha512(k.parent.chain_code, k.run.msg)
            /\ k.run.out.ok <=> (ValidScalar(left) /\ sum # 0)
            /\ k.run.out.ok =>
                 /\ k.run.out.key.secret_key = sum
                 /\ k.run.out.key.chain_code = RightOf(k.run.result)
            /\ ~ValidScalar(left) => (k.run.out = Err("Secp256k1") /\ ~k.run.added)

\* A child whose sum wraps around the order.
C8_Witness ==
    \E i \in DOMAIN kids :
        /\ kids[i].run.out.ok
        /\ LeftOf(kids[i].run.result) + kids[i].parent.secret_key > CurveOrder

\* C9: derive returns the first failure (the master scalar check, then the
\* path, then the child steps in order), hands no ChildNumber to child after
\* a failed step, and returns no key with an error.
C9_FirstFailure ==
    pc = "return" =>
        LET m == master(seed)
            p == into(path)
            allOk == \A i \in DOMAIN log : log[i].ok
        IN  /\ ~m.ok => (ret = m /\ log = <<>>)
            /\ (m.ok /\ ~p.ok) => (ret = Err(p.err) /\ log = <<>>)
            /\ (m.ok /\ p.ok) =>
                 /\ Len(log) <= Len(p.val)
                 /\ \A i \in DOMAIN log : log[i].child = p.val[i]
                 /\ \A i \in 1 .. (Len(log) - 1) : log[i].ok
                 /\ ret.ok <=> (allOk /\ Len(log) = Len(p.val))
                 /\ ~ret.ok => (log # <<>> /\ ret.err = "Secp256k1")
            /\ ~ret.ok => (ret.key = NoKey /\ sk = NoKey)

\* The first of two child steps fails.
C9_Witness ==
    /\ pc = "return" /\ ~ret.ok
    /\ into(path).ok /\ Len(into(path).val) = 2
    /\ Len(log) = 1 /\ ~log[1].ok

\* C10: two decodings of a whole extended key's length that agree on the
\* chain-code field and on the scalar field give the same result, and a
\* parsed key's secret() and chain code are those fields' bytes.
C10_FieldsOnly ==
    /\ (/\ phase = "twin"
        /\ Len(xprv.bytes) = XPRV_LEN /\ Len(xprv2.bytes) = XPRV_LEN
        /\ ChainCodeField(xprv.bytes) = ChainCodeField(xprv2.bytes)
        /\ ScalarField(xprv.bytes) = ScalarField(xprv2.bytes))
         => parsed2 = held
    /\ (phase \in {"parsed", "twin"} /\ held.ok) =>
         /\ secret(held.key) = ScalarField(xprv.bytes)
         /\ held.key.chain_code = ChainCodeField(xprv.bytes)

\* Two keys parsed from decodings that differ in the header, in the byte
\* between the fields and in the checksum.
C10_Witness ==
    /\ phase = "twin" /\ held.ok /\ parsed2 = held
    /\ xprv2.bytes[CC_END + 1] # xprv.bytes[CC_END + 1]
    /\ xprv2.bytes[1] # xprv.bytes[1]
    /\ xprv2.bytes[XPRV_LEN] # xprv.bytes[XPRV_LEN]

====
